---- MODULE Spec2Model ----
(***************************************************************************)
(* A model of turkic: the Mechanical Turk facade (turkic/api.py, class     *)
(* Server) and the command-line dispatcher (turkic/cli.py).                *)
(*                                                                         *)
(* Python values are tagged records ([t |-> "int", v |-> 3]) where the     *)
(* code tests their truth value; text that the code formats, parses,       *)
(* lower-cases or sorts is a sequence of one-character strings.            *)
(***************************************************************************)
EXTENDS Integers, Sequences, FiniteSets, TLC

VARIABLES
    server,      \* the Server instance: localhost and the client's settings
    now,         \* the wall clock read by datetime.utcnow()
    expiration,  \* marketplace: HIT id -> expiration instant, NoHit if absent
    status,      \* marketplace: assignment id -> pending / approved / rejected
    blocked,     \* marketplace: the workers blocked by this requester
    last,        \* the facade operation most recently invoked, with its arguments
    calls,       \* the calls that operation made on self.client, in order
    ret,         \* how that operation ended: a returned value or a raised error
    handlers,    \* cli.handlers: lower-cased name -> (func, help)
    pc,          \* position of cli.main
    args,        \* the argument list main was given
    handlerinst, \* main's local handlerinst (0 when unbound)
    parser,      \* main's local parser (NoParser when unbound)
    parsed,      \* the value of parser.parse_args(args[1:]) (None when unbound)
    trace,       \* what the handlers observed during this dispatch, in order
    out,         \* the lines printed during this dispatch
    ninst,       \* instances constructed so far in this dispatch
    loadres      \* the last LoadCommand.__call__: its arguments and its end

apivars == <<server, now, expiration, status, blocked, last, calls, ret>>
clivars == <<handlers, pc, args, handlerinst, parser, parsed, trace, out, ninst>>
vars == <<server, now, expiration, status, blocked, last, calls, ret,
          handlers, pc, args, handlerinst, parser, parsed, trace, out, ninst,
          loadres>>

----------------------------------------------------------------------------
(* Bounds and sample inputs.                                               *)

MaxTime == 2
MaxHandlers == 2

HitIds == {"h1", "h2"}
AssignmentIds == {"a1"}
WorkerIds == {"w1"}
Feedbacks == {"", "good job"}
Errors == {"RequestError", "ServiceFault"}
NoHit == -1

None == [t |-> "None"]
PyInt(n) == [t |-> "int", v |-> n]
PyStr(s) == [t |-> "str", v |-> s]
NoParser == [prog |-> <<>>, flags |-> {}]

\* Python's truth value of an object: None, 0 and "" are false.
Truthy(x) ==
    CASE x.t = "None" -> FALSE
      [] x.t = "int" -> x.v # 0
      [] x.t = "str" -> x.v # ""

----------------------------------------------------------------------------
(* Text.                                                                   *)

Digits == <<"0", "1", "2", "3", "4", "5", "6", "7", "8", "9">>

DigitChar(d) == Digits[d + 1]

DigitVal(c) == CHOOSE d \in 0..9 : Digits[d + 1] = c

RECURSIVE DecStr(_)
\* str(n) of a natural number
DecStr(n) == IF n < 10 THEN <<DigitChar(n)>>
             ELSE DecStr(n \div 10) \o <<DigitChar(n % 10)>>

\* An amount is held in thousandths.  RoundCents is the rounding of "%0.2f":
\* to the nearest hundredth, an exact tie going to the even digit.
RoundCents(m) ==
    LET q == m \div 10
        r == m % 10
    IN  IF r > 5 \/ (r = 5 /\ q % 2 = 1) THEN q + 1 ELSE q

\* '%0.2f' % amount
Fmt2f(m) ==
    LET a == IF m < 0 THEN 0 - m ELSE m
        c == RoundCents(a)
        sign == IF m < 0 THEN <<"-">> ELSE <<>>
    IN  sign \o DecStr(c \div 100) \o <<".">>
             \o <<DigitChar((c % 100) \div 10), DigitChar(c % 10)>>

RECURSIVE DigitsVal(_)
DigitsVal(s) == IF s = <<>> THEN 0
                ELSE 10 * DigitsVal(SubSeq(s, 1, Len(s) - 1)) + DigitVal(s[Len(s)])

\* float(s) for a decimal numeral with at most three fraction digits, in
\* thousandths
Float(s) ==
    LET dots == {i \in 1..Len(s) : s[i] = "."}
        p == IF dots = {} THEN Len(s) + 1 ELSE CHOOSE i \in dots : TRUE
        whole == SubSeq(s, 1, p - 1)
        frac == SubSeq(s, p + 1, Len(s))
        pad == frac \o [i \in 1..(3 - Len(frac)) |-> "0"]
    IN  1000 * DigitsVal(whole) + DigitsVal(pad)

----------------------------------------------------------------------------
(* The marketplace behind self.client.  A call either raises the client's  *)
(* error and changes nothing, or returns and has the operation's effect.   *)

Returned(v) == [kind |-> "return", value |-> v]
Raised(e) == [kind |-> "raise", value |-> e]

Balances == {<<"0", ".", "0", "0">>, <<"1", "2", ".", "5", "0">>,
             <<"1", "0", "0", "0", "0", ".", "0", "0">>}

Unchanged == [expiration |-> expiration, status |-> status, blocked |-> blocked]

\* The outcomes of one call of operation op with keyword arguments p.
ClientCall(op, p) ==
    {[result |-> Raised(e), world |-> Unchanged] : e \in Errors}
    \cup
    CASE op = "create_hit" ->
           {[result |-> Returned([HITId |-> h]),
             world |-> [Unchanged EXCEPT
                          !.expiration[h] = now + p.LifetimeInSeconds]]
              : h \in {x \in HitIds : expiration[x] = NoHit}}
      [] op = "update_expiration_for_hit" ->
           IF expiration[p.HITId] = NoHit THEN {}
           ELSE {[result |-> Returned("ack"),
                  world |-> [Unchanged EXCEPT !.expiration[p.HITId] = p.ExpireAt]]}
      [] op = "approve_assignment" ->
           IF status[p.AssignmentId] # "pending" THEN {}
           ELSE {[result |-> Returned("ack"),
                  world |-> [Unchanged EXCEPT !.status[p.AssignmentId] = "approved"]]}
      [] op = "reject_assignment" ->
           IF status[p.AssignmentId] # "pending" THEN {}
           ELSE {[result |-> Returned("ack"),
                  world |-> [Unchanged EXCEPT !.status[p.AssignmentId] = "rejected"]]}
      [] op = "send_bonus" ->
           {[result |-> Returned("ack"), world |-> Unchanged]}
      [] op = "create_worker_block" ->
           {[result |-> Returned("ack"),
             world |-> [Unchanged EXCEPT !.blocked = @ \cup {p.WorkerId}]]}
      [] op = "delete_worker_block" ->
           {[result |-> Returned("ack"),
             world |-> [Unchanged EXCEPT !.blocked = @ \ {p.WorkerId}]]}
      [] op = "notify_workers" ->
           {[result |-> Returned("ack"), world |-> Unchanged]}
      [] op = "get_account_balance" ->
           {[result |-> Returned([AvailableBalance |-> b]), world |-> Unchanged]
              : b \in Balances}

Call(op, p, o) == [op |-> op, params |-> p, result |-> o.result]

\* The end of a facade operation: what it was, the client calls it made, how
\* it ended and the state it leaves the marketplace in.
Finish(name, a, cs, r, w) ==
    /\ last' = [op |-> name, args |-> a]
    /\ calls' = cs
    /\ ret' = r
    /\ expiration' = w.expiration
    /\ status' = w.status
    /\ blocked' = w.blocked
    /\ UNCHANGED <<server, now>>
    /\ UNCHANGED clivars
    /\ UNCHANGED loadres

\* Forward with a second attempt after a failure.
ForwardRetry(name, a, op, p) ==
    \E o \in ClientCall(op, p) :
        IF o.result.kind = "raise"
        THEN \E o2 \in ClientCall(op, p) :
                Finish(name, a, <<Call(op, p, o), Call(op, p, o2)>>,
                       o2.result, o2.world)
        ELSE Finish(name, a, <<Call(op, p, o)>>, o.result, o.world)

\* "return self.client.op(**p)": one call, its value returned, its error raised.
Forward(name, a, op, p) ==
    \E o \in ClientCall(op, p) :
        Finish(name, a, <<Call(op, p, o)>>, o.result, o.world)
----------------------------------------------------------------------------
(* class Server                                                            *)

Signatures == {"secret"}
AccessKeys == {"key"}
Localhosts == {"https://host"}
Pages == {"task/1"}
Titles == {"Image annotation"}
Descriptions == {"Draw boxes"}
Keywords == {""}
Durations == {600}
Lifetimes == {1}
Heights == {650}
AutoApproves == {604800}
Rewards == {20, 125}
PlainRewards == {20}
Bonuses == {100, 1375, 1996}
Percents == {None, PyInt(0), PyInt(95)}
Counts == {None, PyInt(0), PyInt(100)}
Countries == {None, PyStr(""), PyStr("US")}
Subjects == {"hello"}
Messages == {"thanks"}
Statistics == {"TotalRewardPayout", "NumberHITsCreated"}

\* Server.__init__
ServerInit(signature, accesskey, localhost, sandbox) ==
    [localhost |-> localhost,
     url |-> IF sandbox
             THEN "https://mturk-requester-sandbox.us-east-1.amazonaws.com"
             ELSE "https://mturk-requester.us-east-1.amazonaws.com",
     accesskey |-> accesskey,
     signature |-> signature]

\* The list createhit builds from its three optional thresholds.
Qualifications(minapprovedpercent, minapprovedamount, countrycode) ==
    (IF Truthy(minapprovedpercent)
     THEN <<[QualificationTypeId |-> "000000000000000000L0",
             Comparator |-> "GreaterThanOrEqualTo",
             IntegerValue |-> minapprovedpercent]>>
     ELSE <<>>)
    \o
    (IF Truthy(minapprovedamount)
     THEN <<[QualificationTypeId |-> "00000000000000000040",
             Comparator |-> "GreaterThanOrEqualTo",
             IntegerValue |-> minapprovedamount]>>
     ELSE <<>>)
    \o
    (IF Truthy(countrycode)
     THEN <<[QualificationTypeId |-> "00000000000000000071",
             Comparator |-> "EqualTo",
             IntegerValue |-> countrycode]>>
     ELSE <<>>)

\* The ExternalQuestion document, as the pieces str.format joins.
Question(localhost, page, height) ==
    <<"<ExternalQuestion xmlns=\"http://mechanicalturk.amazonaws.com/AWSMechanicalTurkDataSchemas/2006-07-14/ExternalQuestion.xsd\">",
      "<ExternalURL>", localhost, "/", page, "</ExternalURL>",
      "<FrameHeight>", height, "</FrameHeight>",
      "</ExternalQuestion>">>

\* The keyword arguments createhit passes to client.create_hit.  The list of
\* qualifications is built, and it is not among them.
CreateHitRequest(a) ==
    LET qualifications ==
            Qualifications(a.minapprovedpercent, a.minapprovedamount, a.countrycode)
    IN  [Title |-> a.title,
         Description |-> a.description,
         Keywords |-> a.keywords,
         Reward |-> Fmt2f(a.amount),
         AssignmentDurationInSeconds |-> a.duration,
         AutoApprovalDelayInSeconds |-> a.autoapprove,
         LifetimeInSeconds |-> a.lifetime,
         Question |-> Question(server.localhost, a.page, a.height)]

CreateHitArgs ==
    [title : Titles, description : Descriptions, page : Pages, amount : Rewards,
     duration : Durations, lifetime : Lifetimes, keywords : Keywords,
     autoapprove : AutoApproves, height : Heights,
     minapprovedpercent : Percents, minapprovedamount : Counts,
     countrycode : Countries]

\* The calls in which at most the approval percentage is asked for.
PlainCreateHitArgs ==
    {a \in CreateHitArgs : /\ a.amount \in PlainRewards
                           /\ a.minapprovedamount = None
                           /\ a.countrycode = None
                           /\ a.minapprovedpercent # PyInt(0)}

CreateHit(a) == Forward("createhit", a, "create_hit", CreateHitRequest(a))

createhit == \E a \in CreateHitArgs : CreateHit(a)

createhit_plain == \E a \in PlainCreateHitArgs : CreateHit(a)

\* DisableRequest with an expiration after the current instant.
DisableRequestLater(hitid) == [HITId |-> hitid, ExpireAt |-> now + 1]

\* The keyword arguments disable passes to client.update_expiration_for_hit.
DisableRequest(hitid) == [HITId |-> hitid, ExpireAt |-> now]

disable ==
    \E hitid \in HitIds :
        Forward("disable", [hitid |-> hitid],
                "update_expiration_for_hit", DisableRequest(hitid))

\* purge doing what its docstring describes.
purge_all ==
    LET live == {h \in HitIds : expiration[h] # NoHit}
        order == CHOOSE q \in [1..Cardinality(live) -> live] :
                     \A i, j \in DOMAIN q : i # j => q[i] # q[j]
    IN  Finish("purge", <<>>,
               [i \in DOMAIN order |->
                   [op |-> "update_expiration_for_hit",
                    params |-> DisableRequest(order[i]),
                    result |-> Returned("ack")]],
               Returned("ack"),
               [Unchanged EXCEPT
                  !.expiration = [h \in HitIds |->
                                     IF h \in live THEN now ELSE NoHit]])

purge ==
    Finish("purge", <<>>, <<>>,
           Raised("You probably don't want to do this"), Unchanged)

accept ==
    \E assignmentid \in AssignmentIds, feedback \in Feedbacks :
        Forward("accept", [assignmentid |-> assignmentid, feedback |-> feedback],
                "approve_assignment",
                [AssignmentId |-> assignmentid, RequesterFeedback |-> feedback])

reject ==
    \E assignmentid \in AssignmentIds, feedback \in Feedbacks :
        Forward("reject", [assignmentid |-> assignmentid, feedback |-> feedback],
                "reject_assignment",
                [AssignmentId |-> assignmentid, RequesterFeedback |-> feedback])

\* The client operation bonus calls.
BonusOperation == "reject_assignment"

bonus ==
    \E workerid \in WorkerIds, assignmentid \in AssignmentIds,
       amount \in Bonuses, feedback \in Feedbacks :
        Forward("bonus",
                [workerid |-> workerid, assignmentid |-> assignmentid,
                 amount |-> amount, feedback |-> feedback],
                BonusOperation,
                [WorkerId |-> workerid, AssignmentId |-> assignmentid,
                 BonusAmount |-> Fmt2f(amount), Reason |-> feedback])

block ==
    \E workerid \in WorkerIds, reason \in Feedbacks :
        Forward("block", [workerid |-> workerid, reason |-> reason],
                "create_worker_block", [WorkerId |-> workerid, Reason |-> reason])

unblock ==
    \E workerid \in WorkerIds, reason \in Feedbacks :
        Forward("unblock", [workerid |-> workerid, reason |-> reason],
                "delete_worker_block", [WorkerId |-> workerid, Reason |-> reason])

email ==
    \E workerid \in WorkerIds, subject \in Subjects, message \in Messages :
        Forward("email",
                [workerid |-> workerid, subject |-> subject, message |-> message],
                "notify_workers",
                [WorkerIds |-> <<workerid>>, Subject |-> subject,
                 MessageText |-> message])

\* getstatistic asking the client.
GetStatisticRemote ==
    [calls |-> <<[op |-> "get_requester_statistic", params |-> <<>>,
                  result |-> Raised("RequestError")]>>,
     result |-> Raised("RequestError")]

\* What every call of getstatistic does: no client call, an error raised.
GetStatistic == [calls |-> <<>>, result |-> Raised("Not supported by new mturk api")]

getstatistic ==
    \E statistic \in Statistics :
        Finish("getstatistic", [statistic |-> statistic, type |-> "float"],
               GetStatistic.calls, GetStatistic.result, Unchanged)

\* The properties that read statistics: the first getstatistic call of each
\* raises, and the property ends there.
StatisticProperties ==
    [rewardpayout |-> "TotalRewardPayout",
     approvalpercentage |-> "PercentAssignmentsApproved",
     feepayout |-> "TotalRewardFeePayout",
     numcreated |-> "NumberHITsCreated"]

statistic_property ==
    \E name \in DOMAIN StatisticProperties :
        Finish(name, <<>>, GetStatistic.calls, GetStatistic.result, Unchanged)

\* float(response["AvailableBalance"])
BalanceValue(response) == Float(response.AvailableBalance)

balance ==
    \E o \in ClientCall("get_account_balance", <<>>) :
        Finish("balance", <<>>, <<Call("get_account_balance", <<>>, o)>>,
               IF o.result.kind = "return"
               THEN Returned(BalanceValue(o.result.value))
               ELSE o.result,
               o.world)

\* Time passes.
Tick ==
    /\ now < MaxTime
    /\ now' = now + 1
    /\ UNCHANGED <<server, expiration, status, blocked, last, calls, ret>>
    /\ UNCHANGED clivars
    /\ UNCHANGED loadres


Init ==
    /\ \E sandbox \in BOOLEAN, signature \in Signatures, accesskey \in AccessKeys,
          localhost \in Localhosts :
          server = ServerInit(signature, accesskey, localhost, sandbox)
    /\ now = 0
    /\ expiration = [h \in HitIds |-> NoHit]
    /\ status = [a \in AssignmentIds |-> "pending"]
    /\ blocked = {}
    /\ last = [op |-> "none", args |-> <<>>]
    /\ calls = <<>>
    /\ ret = [kind |-> "none", value |-> <<>>]
    /\ handlers = <<>>
    /\ pc = "idle"
    /\ args = <<>>
    /\ handlerinst = 0
    /\ parser = NoParser
    /\ parsed = None
    /\ trace = <<>>
    /\ out = <<>>
    /\ ninst = 0
    /\ loadres = [kind |-> "none"]

NextCreate ==
    \/ createhit
    \/ disable
    \/ Tick

SpecCreate == Init /\ [][NextCreate]_vars

NextApi ==
    \/ createhit_plain
    \/ disable
    \/ purge
    \/ accept
    \/ reject
    \/ bonus
    \/ block
    \/ unblock
    \/ email
    \/ getstatistic
    \/ statistic_property
    \/ balance
    \/ Tick

SpecApi == Init /\ [][NextApi]_vars

----------------------------------------------------------------------------
(* turkic/cli.py: the registry and the dispatcher.                         *)

Upper == <<"A", "B">>
LowerOf == <<"a", "b">>

\* The byte value of a character, which orders Python 2 strings.
Ord(c) == CASE c = "A" -> 65 [] c = "B" -> 66 [] c = "a" -> 97 [] c = "b" -> 98

\* str.lower
Lower(s) ==
    [i \in DOMAIN s |->
        IF \E k \in DOMAIN Upper : Upper[k] = s[i]
        THEN LowerOf[CHOOSE k \in DOMAIN Upper : Upper[k] = s[i]]
        ELSE s[i]]

\* s < t for strings
RECURSIVE Less(_, _)
Less(s, t) ==
    IF t = <<>> THEN FALSE
    ELSE IF s = <<>> THEN TRUE
    ELSE IF s[1] # t[1] THEN Ord(s[1]) < Ord(t[1])
    ELSE Less(Tail(s), Tail(t))

\* The names given to the decorator, the command names typed on the command
\* line, and the handlers: a function, and a class that has a setup method.
Names == {<<"a">>, <<"A">>, <<"b">>, <<"B">>, <<"a", "b">>, <<"A", "b">>, <<"A", "B">>}
Helps == {"Launch work", "Pay workers"}
Funcs == {[name |-> <<"a">>, setup |-> FALSE],
          [name |-> <<"A", "b">>, setup |-> TRUE]}
Rests == {<<>>, <<"--v">>, <<"--z">>}
Flags == {"--v"}

\* The key handler() stores a handler under.
RegistryKey(name) == Lower(name)

\* handler(help, inname)(func); inname = <<>> stands for None
register ==
    /\ pc = "idle"
    /\ \E help \in Helps, inname \in Names \cup {<<>>}, func \in Funcs :
          LET name == IF inname = <<>> THEN func.name ELSE inname
              key == RegistryKey(name)
              keys == DOMAIN handlers \cup {key}
          IN  /\ Cardinality(keys) <= MaxHandlers
              /\ handlers' = [k \in keys |->
                                 IF k = key THEN <<func, help>> ELSE handlers[k]]
    /\ UNCHANGED <<pc, args, handlerinst, parser, parsed, trace, out, ninst>>
    /\ UNCHANGED apivars
    /\ UNCHANGED loadres

\* The names in the opposite order.
RECURSIVE Descending(_)
Descending(S) ==
    IF S = {} THEN <<>>
    ELSE LET m == CHOOSE x \in S : \A y \in S \ {x} : Less(y, x)
         IN  <<m>> \o Descending(S \ {m})

\* sorted(handlers.items()): the names in ascending order
RECURSIVE Sorted(_)
Sorted(S) ==
    IF S = {} THEN <<>>
    ELSE LET m == CHOOSE x \in S : \A y \in S \ {x} : Less(x, y)
         IN  <<m>> \o Sorted(S \ {m})

\* help(): one line for each handler
HelpLines ==
    LET order == Sorted(DOMAIN handlers)
    IN  [i \in DOMAIN order |->
            [action |-> order[i], help |-> handlers[order[i]][2]]]

\* The key main looks the command up under.
LookupKey(name) == name

\* main(args), lines 59-74: an empty list prints the help, an unknown name
\* prints the error, a handler without setup is called with the rest.
main_start ==
    /\ pc = "idle"
    /\ \E a \in {<<>>} \cup {<<n>> \o r : n \in Names, r \in Rests} :
          /\ args' = a
          /\ IF a = <<>>
             THEN /\ out' = HelpLines
                  /\ pc' = "done"
                  /\ trace' = trace
             ELSE IF LookupKey(a[1]) \notin DOMAIN handlers
             THEN /\ out' = <<[error |-> "Error: Unknown action", name |-> a[1]]>>
                  /\ pc' = "done"
                  /\ trace' = trace
             ELSE LET handler == handlers[LookupKey(a[1])][1]
                  IN  IF ~handler.setup
                      THEN /\ trace' = Append(trace, [ev |-> "call", func |-> handler,
                                                      inst |-> 0, arg |-> Tail(a)])
                           /\ pc' = "done"
                           /\ out' = out
                      ELSE /\ pc' = "construct"
                           /\ UNCHANGED <<trace, out>>
    /\ UNCHANGED <<handlers, handlerinst, parser, parsed, ninst>>
    /\ UNCHANGED apivars
    /\ UNCHANGED loadres

\* line 76: handlerinst = handler()
main_construct ==
    /\ pc = "construct"
    /\ ninst' = ninst + 1
    /\ handlerinst' = ninst + 1
    /\ trace' = Append(trace, [ev |-> "init", func |-> handlers[LookupKey(args[1])][1],
                               inst |-> ninst + 1, arg |-> <<>>])
    /\ pc' = "setup"
    /\ UNCHANGED <<handlers, args, parser, parsed, out>>
    /\ UNCHANGED apivars
    /\ UNCHANGED loadres

\* line 77: parser = handlerinst.setup()
main_setup ==
    /\ pc = "setup"
    /\ trace' = Append(trace, [ev |-> "setup", func |-> handlers[LookupKey(args[1])][1],
                               inst |-> handlerinst, arg |-> <<>>])
    /\ parser' = [prog |-> <<"t", "u", "r", "k", "i", "c">>, flags |-> Flags]
    /\ pc' = "label"
    /\ UNCHANGED <<handlers, args, handlerinst, parsed, out, ninst>>
    /\ UNCHANGED apivars
    /\ UNCHANGED loadres

\* line 78: parser.prog = args[0]
main_label ==
    /\ pc = "label"
    /\ parser' = [parser EXCEPT !.prog = args[1]]
    /\ pc' = "parse"
    /\ UNCHANGED <<handlers, args, handlerinst, parsed, trace, out, ninst>>
    /\ UNCHANGED apivars
    /\ UNCHANGED loadres

\* parser.parse_args(tokens): a namespace telling which flags were given, or
\* the usage error and SystemExit when a token is no flag of the parser.
ParseArgs(p, tokens) ==
    IF \A i \in DOMAIN tokens : tokens[i] \in p.flags
    THEN [t |-> "Namespace", prog |-> p.prog,
          v |-> [f \in p.flags |-> \E i \in DOMAIN tokens : tokens[i] = f]]
    ELSE [t |-> "SystemExit", prog |-> p.prog, v |-> 2]

\* line 79, the argument: parser.parse_args(args[1:])
main_parse ==
    /\ pc = "parse"
    /\ parsed' = ParseArgs(parser, Tail(args))
    /\ pc' = IF parsed'.t = "SystemExit" THEN "raised" ELSE "invoke"
    /\ UNCHANGED <<handlers, args, handlerinst, parser, trace, out, ninst>>
    /\ UNCHANGED apivars
    /\ UNCHANGED loadres

\* line 79 written handler()(parsed): the call goes to a second instance.
main_invoke_fresh ==
    /\ pc = "invoke"
    /\ LET func == handlers[LookupKey(args[1])][1]
       IN  trace' = trace \o <<[ev |-> "init", func |-> func,
                                inst |-> ninst + 1, arg |-> <<>>],
                               [ev |-> "call", func |-> func,
                                inst |-> ninst + 1, arg |-> parsed]>>
    /\ ninst' = ninst + 1
    /\ pc' = "done"
    /\ UNCHANGED <<handlers, args, handlerinst, parser, parsed, out>>
    /\ UNCHANGED apivars
    /\ UNCHANGED loadres

\* line 79, the call: handlerinst(parsed)
main_invoke ==
    /\ pc = "invoke"
    /\ trace' = Append(trace, [ev |-> "call", func |-> handlers[LookupKey(args[1])][1],
                               inst |-> handlerinst, arg |-> parsed])
    /\ pc' = "done"
    /\ UNCHANGED <<handlers, args, handlerinst, parser, parsed, out, ninst>>
    /\ UNCHANGED apivars
    /\ UNCHANGED loadres

NextCli ==
    \/ register
    \/ main_start
    \/ main_construct
    \/ main_setup
    \/ main_label
    \/ main_parse
    \/ main_invoke

SpecCli == Init /\ [][NextCli]_vars


----------------------------------------------------------------------------
(* class LoadCommand                                                       *)

LoadTitles == {<<"Image annotation of ", "{c}">>, <<"{c}", " wanted">>}
LoadDescriptions == {<<"Draw boxes around ", "{c}", " in this image.">>,
                     <<"Label the image.">>}
Plurals == {"cars", "people", "dogs"}
LoadArgs ==
    [title : LoadTitles, description : LoadDescriptions, plural : Plurals,
     duration : {600}, lifetime : {1209600}, cost : {20, 50}, bonus : {0, 10},
     keywords : {"", "video"}]

\* template.format(c = plural)
Format(template, c) ==
    [i \in DOMAIN template |-> IF template[i] = "{c}" THEN c ELSE template[i]]

\* HITGroup(title = ..., ..., keywords = ...), lines 33-39
HITGroup(a) ==
    [title |-> Format(a.title, a.plural),
     description |-> Format(a.description, a.plural),
     duration |-> a.duration,
     lifetime |-> a.lifetime,
     cost |-> a.cost,
     bonus |-> a.bonus,
     keywords |-> a.keywords]

\* The parameters of LoadCommand.load, and the classes called: LoadCommand
\* as it is, a subclass whose load has the same parameters, and a subclass
\* whose load takes one more.
LoadParams == <<"self", "args", "group">>
LoadClasses ==
    {[name |-> "LoadCommand", overrides |-> FALSE, params |-> LoadParams],
     [name |-> "load", overrides |-> TRUE, params |-> LoadParams],
     [name |-> "load4", overrides |-> TRUE,
      params |-> <<"self", "me", "args", "group">>]}

\* The arguments line 40 writes between the parentheses of self.load(...).
LoadCallArgs(self, a, group) == <<self, a, group>>

\* Calling the bound method self.load: the instance comes first, then the
\* arguments written; a wrong number of them is a TypeError, and the load of
\* LoadCommand raises NotImplementedError.
CallLoad(cls, self, explicit) ==
    IF 1 + Len(explicit) # Len(cls.params)
    THEN [received |-> <<>>, end |-> Raised("TypeError")]
    ELSE IF cls.overrides
    THEN [received |-> <<explicit>>, end |-> Returned(None)]
    ELSE [received |-> <<explicit>>, end |-> Raised("NotImplementedError")]

\* LoadCommand.__call__(self, args)
LoadCommand_call ==
    /\ \E cls \in LoadClasses, a \in LoadArgs :
          LET self == [inst |-> 1, cls |-> cls.name]
              group == HITGroup(a)
              r == CallLoad(cls, self, LoadCallArgs(self, a, group))
          IN  loadres' = [kind |-> "called", cls |-> cls, args |-> a,
                          group |-> group, received |-> r.received,
                          end |-> r.end]
    /\ UNCHANGED apivars
    /\ UNCHANGED clivars

NextLoad == LoadCommand_call

SpecLoad == Init /\ [][NextLoad]_vars

----------------------------------------------------------------------------
(* Properties of the facade.                                               *)

Expired(h) == expiration[h] # NoHit /\ expiration[h] <= now

\* C1: grantBonus issues exactly one remote call, the grantBonus operation
\* with the worker id, the assignment id, the amount formatted to two
\* decimals and the reason; it never invokes rejectAssignment or
\* approveAssignment, so the assignment it names is not rejected by it.
C1_BonusCallsGrantBonus ==
    last.op = "bonus" =>
        /\ Len(calls) = 1
        /\ calls[1].op = "send_bonus"
        /\ calls[1].op \notin {"reject_assignment", "approve_assignment"}
        /\ calls[1].params = [WorkerId |-> last.args.workerid,
                              AssignmentId |-> last.args.assignmentid,
                              BonusAmount |-> Fmt2f(last.args.amount),
                              Reason |-> last.args.feedback]

\* The filters a request carries.
CarriedFilters(p) ==
    IF "QualificationRequirements" \in DOMAIN p
    THEN p.QualificationRequirements
    ELSE <<>>

Present(x) == x # None /\ x # PyInt(0) /\ x # PyStr("")

\* C2: the request createTask passes to the remote createTask operation
\* carries exactly one filter per present threshold (approval percent >=,
\* approved count >=, country =, each with the caller's value), in that
\* order, and none for an absent (null or falsy) threshold.
C2_RequestCarriesFilters ==
    last.op = "createhit" =>
        /\ Len(calls) = 1
        /\ calls[1].op = "create_hit"
        /\ CarriedFilters(calls[1].params) =
             SelectSeq(<<[QualificationTypeId |-> "000000000000000000L0",
                          Comparator |-> "GreaterThanOrEqualTo",
                          IntegerValue |-> last.args.minapprovedpercent],
                         [QualificationTypeId |-> "00000000000000000040",
                          Comparator |-> "GreaterThanOrEqualTo",
                          IntegerValue |-> last.args.minapprovedamount],
                         [QualificationTypeId |-> "00000000000000000071",
                          Comparator |-> "EqualTo",
                          IntegerValue |-> last.args.countrycode]>>,
                       LAMBDA f : Present(f.IntegerValue))

C7_PurgeStep ==
    (last'.op = "purge" /\ now' = now) =>
        /\ ret' = Raised("You probably don't want to do this")
        /\ calls' = <<>>
        /\ expiration' = expiration
        /\ status' = status
        /\ blocked' = blocked
        /\ server' = server

StatisticReads ==
    {"getstatistic", "rewardpayout", "approvalpercentage", "feepayout", "numcreated"}

ForwardingOps ==
    {"createhit", "disable", "accept", "reject", "bonus", "block", "unblock",
     "email", "balance"}

C9_Post ==
    last.op \in ForwardingOps =>
        /\ Len(calls) = 1
        /\ calls[1].result.kind = "raise" => ret = calls[1].result
        /\ last.op = "email" =>
              calls[1].params.WorkerIds = <<last.args.workerid>>

\* C9: every forwarding operation makes exactly one remote call (email with
\* a one-element recipient list); when that call fails the same error
\* reaches the caller, with no second call, and no operation changes the
\* facade's own state.
C9_SingleAttempt == [][server' = server /\ C9_Post']_vars

C9_Witness ==
    /\ last.op = "accept"
    /\ Len(calls) = 1
    /\ ret = Raised("ServiceFault")
    /\ status[last.args.assignmentid] = "pending"

C10_Step ==
    \A h \in HitIds :
        /\ Expired(h) => Expired(h)'
        /\ (expiration[h] # NoHit /\ expiration'[h] # expiration[h]) =>
              /\ last'.op = "disable"
              /\ last'.args.hitid = h
              /\ expiration'[h] = now
              /\ \A g \in HitIds \ {h} : expiration'[g] = expiration[g]
        /\ (/\ last'.op = "disable" /\ last'.args.hitid = h
            /\ ret'.kind = "return" /\ now' = now) =>
              /\ expiration'[h] # NoHit
              /\ expiration'[h] <= now

\* C10: disable is the only operation that changes an existing task's
\* expiration; it sets the expiration of exactly the named task to the
\* current instant and touches no other task; an expired task never becomes
\* live again.
C10_OneWay == [][C10_Step]_vars

C10_Witness ==
    /\ last.op = "disable"
    /\ ret.kind = "return"
    /\ Expired(last.args.hitid)
    /\ now > 0
    /\ expiration[last.args.hitid] = now
    /\ \E g \in HitIds : expiration[g] # NoHit /\ ~Expired(g)
----------------------------------------------------------------------------
(* Properties of the registry, the dispatcher and LoadCommand.             *)

Events(e) == {i \in DOMAIN trace : trace[i].ev = e}

\* C3: names differing only in case share one registry entry, and a first
\* token that differs only in case from a registered name resolves to that
\* handler and invokes it, with no unknown-action report.
C3_CaseInsensitiveDispatch ==
    /\ \A k1, k2 \in DOMAIN handlers : Lower(k1) = Lower(k2) => k1 = k2
    /\ (pc # "idle" /\ args # <<>> /\ Lower(args[1]) \in DOMAIN handlers) =>
          /\ out = <<>>
          /\ pc = "done" =>
                \E i \in Events("call") :
                    trace[i].func = handlers[Lower(args[1])][1]

\* C4: calling a LoadCommand builds the task specification with the plural
\* substituted and calls load once with exactly the two arguments (args,
\* group); a class that does not override load ends in NotImplementedError.
C4_LoadDelegation ==
    loadres.kind = "called" =>
        /\ loadres.group.title = Format(loadres.args.title, loadres.args.plural)
        /\ IF loadres.cls.overrides
           THEN loadres.received = <<<<loadres.args, loadres.group>>>>
           ELSE loadres.end = Raised("NotImplementedError")

\* C5: for a handler that has setup, a dispatch constructs one instance with
\* no arguments, then calls setup on it once, then parses args[1:] with the
\* parser labelled with the command name, then calls that same instance once
\* with the parsed value; a handler without setup is called once with
\* args[1:] and never constructed.
C5_DispatchOrder ==
    (pc # "idle" /\ args # <<>> /\ args[1] \in DOMAIN handlers) =>
        LET h == handlers[args[1]][1]
            init == [ev |-> "init", func |-> h, inst |-> 1, arg |-> <<>>]
            setup == [ev |-> "setup", func |-> h, inst |-> 1, arg |-> <<>>]
            call == [ev |-> "call", func |-> h, inst |-> 1,
                     arg |-> [t |-> "Namespace", prog |-> args[1],
                              v |-> [f \in Flags |->
                                       \E i \in 2..Len(args) : args[i] = f]]]
        IN  IF h.setup
            THEN /\ \E n \in 0..3 : trace = SubSeq(<<init, setup, call>>, 1, n)
                 /\ pc = "done" => trace = <<init, setup, call>>
                 /\ pc = "raised" => trace = <<init, setup>>
            ELSE /\ pc = "done"
                 /\ trace = <<[ev |-> "call", func |-> h, inst |-> 0,
                               arg |-> Tail(args)]>>

C5_Witness ==
    /\ pc = "done"
    /\ args = <<<<"a", "b">>, "--v">>
    /\ Len(trace) = 3
    /\ trace[3].ev = "call"
    /\ trace[3].arg.prog = <<"a", "b">>

\* C6: a dispatch invokes at most one handler; with no arguments it invokes
\* none and lists every registered command with its help text in ascending
\* order of name; with an unregistered first token it invokes none, prints
\* "Error: Unknown action {name}" and returns normally.
C6_AtMostOneHandler ==
    /\ Cardinality(Events("call")) <= 1
    /\ (pc # "idle" /\ args = <<>>) =>
          /\ pc = "done"
          /\ trace = <<>>
          /\ Len(out) = Cardinality(DOMAIN handlers)
          /\ \A i \in DOMAIN out :
                /\ out[i].action \in DOMAIN handlers
                /\ out[i].help = handlers[out[i].action][2]
          /\ \A i, j \in DOMAIN out : i < j => Less(out[i].action, out[j].action)
    /\ (pc # "idle" /\ args # <<>> /\ args[1] \notin DOMAIN handlers) =>
          /\ pc = "done"
          /\ trace = <<>>
          /\ out = <<[error |-> "Error: Unknown action", name |-> args[1]]>>

C6_Witness ==
    /\ pc = "done"
    /\ args = <<>>
    /\ Len(out) = 2
    /\ out[1].action = <<"a", "b">>
    /\ out[2].action = <<"b">>
====
